---- MODULE Spec2Model ----
(***************************************************************************)
(* Backgrid backtesting engine (src/src/backtest.py): signal generator,    *)
(* position simulator, performance analyzer and orchestrator.              *)
(*                                                                         *)
(* Floating-point values are modelled as exact rationals <<n, d>> with     *)
(* d > 0 and gcd(n, d) = 1, extended with the IEEE special values          *)
(* NaN = <<0, 0>>, +inf = <<1, 0>>, -inf = <<-1, 0>>.  Rounding error of   *)
(* binary floating point and the sign of zero are not modelled: round()    *)
(* sees the exact value, so an exact tie goes to the even neighbour.       *)
(***************************************************************************)
EXTENDS Integers, Sequences, FiniteSets, TLC

(***************************************************************************)
(* Bounds of the model                                                     *)
(***************************************************************************)
MaxLen == 4

MaxPrice == 2

MaxEquity == 4

MaxExtra == 1

MaxClock == 2

MaxCalls == 2

(***************************************************************************)
(* Program constants                                                       *)
(***************************************************************************)
MIN_PERIOD == 2

DEFAULT_FAST == 10

DEFAULT_SLOW == 30

DEFAULT_CAPITAL == 10000

\* the clock is read in ticks; strftime("%Y%m%d-%H%M%S") keeps whole seconds
TICKS_PER_SECOND == 2

(***************************************************************************)
(* Option values: None is the empty sequence, Some(x) the singleton        *)
(***************************************************************************)
None == << >>

Some(x) == << x >>

IsSome(o) == Len(o) = 1

Get(o) == o[1]

(***************************************************************************)
(* Float arithmetic (numpy float64 without rounding)                       *)
(***************************************************************************)
Abs(x) == IF x < 0 THEN -x ELSE x

Sign(x) == IF x < 0 THEN -1 ELSE IF x > 0 THEN 1 ELSE 0

RECURSIVE GCD(_, _)
GCD(a, b) == IF b = 0 THEN a ELSE GCD(b, a % b)

Norm(n, d) ==
    LET g == GCD(Abs(n), d)
    IN  << (Sign(n) * (Abs(n) \div g)), d \div g >>

NaN == << 0, 0 >>

PosInf == << 1, 0 >>

NegInf == << -1, 0 >>

F(i) == << i, 1 >>

IsNaN(a) == a = NaN

IsInf(a) == a[2] = 0 /\ a[1] # 0

IsFinite(a) == a[2] > 0

FSign(a) == Sign(a[1])

FNeg(a) == << -a[1], a[2] >>

FAdd(a, b) ==
    IF IsNaN(a) \/ IsNaN(b) THEN NaN
    ELSE IF IsInf(a) /\ IsInf(b) THEN (IF a = b THEN a ELSE NaN)
    ELSE IF IsInf(a) THEN a
    ELSE IF IsInf(b) THEN b
    ELSE LET g == GCD(a[2], b[2])
         IN  Norm(a[1] * (b[2] \div g) + b[1] * (a[2] \div g),
                  (a[2] \div g) * b[2])

FSub(a, b) == FAdd(a, FNeg(b))

FMul(a, b) ==
    IF IsNaN(a) \/ IsNaN(b) THEN NaN
    ELSE IF IsInf(a) \/ IsInf(b)
         THEN (IF FSign(a) * FSign(b) = 0 THEN NaN
               ELSE << FSign(a) * FSign(b), 0 >>)
    ELSE LET x == Norm(a[1], b[2])
             y == Norm(b[1], a[2])
         IN  IF a[1] = 0 \/ b[1] = 0 THEN F(0)
             ELSE << x[1] * y[1], x[2] * y[2] >>

FDiv(a, b) ==
    IF IsNaN(a) \/ IsNaN(b) THEN NaN
    ELSE IF IsInf(a) /\ IsInf(b) THEN NaN
    ELSE IF IsInf(b) THEN F(0)
    ELSE IF IsInf(a) THEN (IF FSign(b) < 0 THEN FNeg(a) ELSE a)
    ELSE IF b[1] = 0 THEN (IF a[1] = 0 THEN NaN ELSE << FSign(a), 0 >>)
    ELSE IF a[1] = 0 THEN F(0)
    ELSE LET x == Norm(a[1], Abs(b[1]))
             y == Norm(b[2], a[2])
         IN  << Sign(b[1]) * x[1] * y[1], x[2] * y[2] >>

\* a < b; every comparison with NaN is false
FLt(a, b) ==
    IF IsNaN(a) \/ IsNaN(b) THEN FALSE
    ELSE IF IsInf(a) /\ IsInf(b) THEN a[1] < b[1]
    ELSE a[1] * b[2] < b[1] * a[2]

FGt(a, b) == FLt(b, a)

FEq(a, b) == ~IsNaN(a) /\ ~IsNaN(b) /\ a = b

FLe(a, b) == FLt(a, b) \/ FEq(a, b)

(***************************************************************************)
(* pandas primitives used by the engine; a Series is a sequence            *)
(***************************************************************************)
RECURSIVE SumRange(_, _, _)
SumRange(s, lo, hi) ==
    IF lo > hi THEN 0
    ELSE IF lo = hi THEN s[lo]
    ELSE LET mid == (lo + hi) \div 2
         IN  SumRange(s, lo, mid) + SumRange(s, mid + 1, hi)

\* Series.astype(float)
ToFloat(s) == [i \in 1..Len(s) |-> F(s[i])]

\* Series.rolling(window=window).mean(): NaN until `window` observations exist
rolling_mean(close, window) ==
    [i \in 1..Len(close) |->
        IF i < window THEN NaN
        ELSE FDiv(F(SumRange(close, i - window + 1, i)), F(window))]

\* Series.shift(1): the value of the previous row, NaN in the first row
shift(s) == [i \in 1..Len(s) |-> IF i = 1 THEN NaN ELSE s[i - 1]]

\* mutant of pct_change: the change towards the previous row, s.shift(1) / s - 1
pct_change_Backward(s) ==
    LET previous == shift(s)
    IN  [i \in 1..Len(s) |-> FSub(FDiv(previous[i], s[i]), F(1))]

\* Series.pct_change(): s / s.shift(1) - 1
pct_change(s) ==
    LET previous == shift(s)
    IN  [i \in 1..Len(s) |-> FSub(FDiv(s[i], previous[i]), F(1))]

\* the product of s[lo..hi], a NaN row counted as 1; the rows are halved to
\* keep the evaluation shallow
RECURSIVE ProdRange(_, _, _)
ProdRange(s, lo, hi) ==
    IF lo > hi THEN F(1)
    ELSE IF lo = hi THEN (IF IsNaN(s[lo]) THEN F(1) ELSE s[lo])
    ELSE LET mid == (lo + hi) \div 2
         IN  FMul(ProdRange(s, lo, mid), ProdRange(s, mid + 1, hi))

ProdSkipNa(s, i) == ProdRange(s, 1, i)

\* Series.cumprod(): skipna, a NaN row stays NaN and is left out of the product
cumprod(s) ==
    [i \in 1..Len(s) |-> IF IsNaN(s[i]) THEN NaN ELSE ProdSkipNa(s, i)]

\* mutants of fillna: the NaN rows left as they are, or dropped
fillna_Unfilled(s, value) == s

fillna_Dropped(s, value) == SelectSeq(s, LAMBDA x : ~IsNaN(x))

\* Series.fillna(value)
fillna(s, value) == [i \in 1..Len(s) |-> IF IsNaN(s[i]) THEN value ELSE s[i]]

\* Series.dropna()
dropna(s) == SelectSeq(s, LAMBDA x : ~IsNaN(x))

(***************************************************************************)
(* Errors                                                                  *)
(***************************************************************************)
ValueError(msg) == [kind |-> "ValueError", msg |-> msg]

MsgOrdering == "must be less than slow period"

MsgTooSmall == "MA periods must be at least 2"

MsgInsufficient == "Insufficient data"

MsgUnknownStrategy == "Unknown strategy"

\* float / 0 in Python
ZeroDivisionError == [kind |-> "ZeroDivisionError", msg |-> "float division by zero"]

(***************************************************************************)
(* Signal generator                                                        *)
(***************************************************************************)
\* mutant of SignalRule: a tie of the two averages counts as long
SignalRule_TieLong(fast_ma, slow_ma) ==
    [i \in 1..Len(fast_ma) |-> IF FLe(slow_ma[i], fast_ma[i]) THEN 1 ELSE 0]

SignalRule(fast_ma, slow_ma) ==
    [i \in 1..Len(fast_ma) |-> IF FGt(fast_ma[i], slow_ma[i]) THEN 1 ELSE 0]

SignalsRaise(msg) ==
    [error |-> Some(ValueError(msg)), fast_ma |-> None, slow_ma |-> None,
     signals |-> None]

\* mutants of ValidatePeriods: a series of exactly slow_period points is
\* refused; the length of the series is checked before the periods
ValidatePeriods_OffByOne(n, fast_period, slow_period) ==
    IF fast_period >= slow_period THEN Some(MsgOrdering)
    ELSE IF fast_period < MIN_PERIOD \/ slow_period < MIN_PERIOD THEN Some(MsgTooSmall)
    ELSE IF n <= slow_period THEN Some(MsgInsufficient)
    ELSE None

ValidatePeriods_DataFirst(n, fast_period, slow_period) ==
    IF n < slow_period THEN Some(MsgInsufficient)
    ELSE IF fast_period >= slow_period THEN Some(MsgOrdering)
    ELSE IF fast_period < MIN_PERIOD \/ slow_period < MIN_PERIOD THEN Some(MsgTooSmall)
    ELSE None

ValidatePeriods(n, fast_period, slow_period) ==
    IF fast_period >= slow_period THEN Some(MsgOrdering)
    ELSE IF fast_period < MIN_PERIOD \/ slow_period < MIN_PERIOD THEN Some(MsgTooSmall)
    ELSE IF n < slow_period THEN Some(MsgInsufficient)
    ELSE None

calculate_ma_crossover_signals(df, fast_period, slow_period) ==
    LET bad == ValidatePeriods(Len(df), fast_period, slow_period)
    IN  IF IsSome(bad) THEN SignalsRaise(Get(bad))
        ELSE LET fast_ma == rolling_mean(df, fast_period)
                 slow_ma == rolling_mean(df, slow_period)
             IN  [error |-> None, fast_ma |-> Some(fast_ma),
                  slow_ma |-> Some(slow_ma),
                  signals |-> Some(SignalRule(fast_ma, slow_ma))]

(***************************************************************************)
(* Position simulator                                                      *)
(***************************************************************************)
\* mutants of StrategyReturns: the signal of the next row (shift(-1)), the
\* signal of the same row (no shift), no signal at all
\* the signal of two steps before is applied
StrategyReturns_Stale(signals, daily_returns) ==
    LET shifted == shift(shift(ToFloat(signals)))
    IN  [i \in 1..Len(daily_returns) |-> FMul(shifted[i], daily_returns[i])]

\* a flat position is a short one
StrategyReturns_Short(signals, daily_returns) ==
    LET shifted == shift(ToFloat(signals))
    IN  [i \in 1..Len(daily_returns) |->
            FMul(FSub(FAdd(shifted[i], shifted[i]), F(1)), daily_returns[i])]

StrategyReturns_Ahead(signals, daily_returns) ==
    [i \in 1..Len(daily_returns) |->
        FMul(IF i = Len(signals) THEN NaN ELSE F(signals[i + 1]), daily_returns[i])]

StrategyReturns_SameRow(signals, daily_returns) ==
    [i \in 1..Len(daily_returns) |-> FMul(F(signals[i]), daily_returns[i])]

StrategyReturns_Unsignalled(signals, daily_returns) == daily_returns

StrategyReturns(signals, daily_returns) ==
    LET shifted == shift(ToFloat(signals))
    IN  [i \in 1..Len(daily_returns) |-> FMul(shifted[i], daily_returns[i])]

calculate_returns(df, signals, initial_capital) ==
    LET daily_returns == pct_change(ToFloat(df))
        strategy_returns == StrategyReturns(signals, daily_returns)
        cumulative_returns ==
            cumprod([i \in 1..Len(df) |-> FAdd(F(1), strategy_returns[i])])
        equity_curve ==
            [i \in 1..Len(df) |-> FMul(F(initial_capital), cumulative_returns[i])]
    IN  fillna(equity_curve, F(initial_capital))

(***************************************************************************)
(* Performance analyzer                                                    *)
(***************************************************************************)
FMax(a, b) == IF IsNaN(a) THEN b ELSE IF IsNaN(b) THEN a ELSE IF FLt(a, b) THEN b ELSE a

FMin(a, b) == IF IsNaN(a) THEN b ELSE IF IsNaN(b) THEN a ELSE IF FLt(b, a) THEN b ELSE a

RECURSIVE MaxRange(_, _, _)
MaxRange(s, lo, hi) ==
    IF lo > hi THEN NaN
    ELSE IF lo = hi THEN s[lo]
    ELSE LET mid == (lo + hi) \div 2
         IN  FMax(MaxRange(s, lo, mid), MaxRange(s, mid + 1, hi))

MaxUpTo(s, i) == MaxRange(s, 1, i)

RECURSIVE MinRange(_, _, _)
MinRange(s, lo, hi) ==
    IF lo > hi THEN NaN
    ELSE IF lo = hi THEN s[lo]
    ELSE LET mid == (lo + hi) \div 2
         IN  FMin(MinRange(s, lo, mid), MinRange(s, mid + 1, hi))

MinUpTo(s, i) == MinRange(s, 1, i)

\* mutant of expanding_max: the maximum of the whole series (Series.max())
expanding_max_Whole(s) == [i \in 1..Len(s) |-> MaxUpTo(s, Len(s))]

\* Series.expanding().max(): running maximum, NaN rows skipped
expanding_max(s) == [i \in 1..Len(s) |-> MaxUpTo(s, i)]

\* Series.min(): skipna, NaN when no value is left
series_min(s) == MinUpTo(s, Len(s))

RECURSIVE FSumRange(_, _, _)
FSumRange(s, lo, hi) ==
    IF lo > hi THEN F(0)
    ELSE IF lo = hi THEN s[lo]
    ELSE LET mid == (lo + hi) \div 2
         IN  FAdd(FSumRange(s, lo, mid), FSumRange(s, mid + 1, hi))

FSum(s, i) == FSumRange(s, 1, i)

\* Series.mean() of a series without NaN
series_mean(s) == FDiv(FSum(s, Len(s)), F(Len(s)))

\* Series.var(ddof=1) of a series without NaN: std() is its square root
series_var(s) ==
    LET m == series_mean(s)
        sq == [i \in 1..Len(s) |-> FMul(FSub(s[i], m), FSub(s[i], m))]
    IN  FDiv(FSum(sq, Len(s)), F(Len(s) - 1))

\* mutant of Drawdown: the distance to the running maximum, not its ratio
Drawdown_Absolute(equity_curve) ==
    LET running_max == expanding_max(equity_curve)
    IN  [i \in 1..Len(equity_curve) |-> FSub(equity_curve[i], running_max[i])]

\* backtest.py 172-175
Drawdown(equity_curve) ==
    LET running_max == expanding_max(equity_curve)
    IN  [i \in 1..Len(equity_curve) |->
            FDiv(FSub(equity_curve[i], running_max[i]), running_max[i])]

calculate_max_drawdown(equity_curve) ==
    IF Len(equity_curve) < 2 THEN F(0)
    ELSE series_min(Drawdown(equity_curve))

\* mutant of calculate_total_return: the gain in currency
calculate_total_return_Absolute(equity_curve) ==
    IF Len(equity_curve) < 2 THEN F(0)
    ELSE FSub(equity_curve[Len(equity_curve)], equity_curve[1])

\* mutant of calculate_total_return: no guard for a first value of 0
calculate_total_return_Unguarded(equity_curve) ==
    IF Len(equity_curve) < 2 THEN F(0)
    ELSE FDiv(FSub(equity_curve[Len(equity_curve)], equity_curve[1]),
              equity_curve[1])

calculate_total_return(equity_curve) ==
    IF Len(equity_curve) < 2 THEN F(0)
    ELSE LET initial_value == equity_curve[1]
             final_value == equity_curve[Len(equity_curve)]
         IN  IF FEq(initial_value, F(0)) THEN F(0)
             ELSE FDiv(FSub(final_value, initial_value), initial_value)

(***************************************************************************)
(* The Sharpe ratio is mean / std * sqrt(periods): an irrational number in *)
(* general.  It is kept exactly as sign * sqrt(sq), sq a float as above.   *)
(***************************************************************************)
PERIODS_PER_YEAR == 252

Surd(sign, sq) == [sign |-> sign, sq |-> sq]

SurdZero == Surd(0, F(0))

SurdNaN == Surd(0, NaN)

\* mutant of calculate_sharpe_ratio: no guard for a standard deviation of 0
calculate_sharpe_ratio_Unguarded(equity_curve, risk_free_rate, periods_per_year) ==
    LET returns == dropna(pct_change(equity_curve))
    IN  IF Len(returns) < 2 THEN SurdZero
        ELSE LET daily_rf_rate == FDiv(risk_free_rate, F(periods_per_year))
                 excess_returns ==
                     [i \in 1..Len(returns) |-> FSub(returns[i], daily_rf_rate)]
                 mean == series_mean(excess_returns)
                 var == series_var(excess_returns)
             IN  IF IsNaN(var) \/ IsNaN(mean) THEN SurdNaN
                 ELSE Surd(FSign(mean),
                           FDiv(FMul(FMul(mean, mean), F(periods_per_year)), var))

\* backtest.py 143: the division is reached with two or more returns only
SharpeRaises(equity_curve, periods_per_year) ==
    /\ Len(dropna(pct_change(equity_curve))) >= 2
    /\ periods_per_year = 0

\* the value returned when SharpeRaises is false
calculate_sharpe_ratio(equity_curve, risk_free_rate, periods_per_year) ==
    LET returns == dropna(pct_change(equity_curve))
    IN  IF Len(returns) < 2 THEN SurdZero
        ELSE LET daily_rf_rate == FDiv(risk_free_rate, F(periods_per_year))
                 excess_returns ==
                     [i \in 1..Len(returns) |-> FSub(returns[i], daily_rf_rate)]
                 mean == series_mean(excess_returns)
                 var == series_var(excess_returns)
             IN  IF FEq(var, F(0)) THEN SurdZero
                 ELSE IF IsNaN(var) \/ IsNaN(mean) THEN SurdNaN
                 ELSE Surd(FSign(mean),
                           FDiv(FMul(FMul(mean, mean), F(periods_per_year)), var))

(***************************************************************************)
(* Orchestrator helpers                                                    *)
(***************************************************************************)
\* mutant of ParamGet: a missing key takes the smallest period
ParamGet_Minimum(p, key, default) == IF key \in DOMAIN p THEN p[key] ELSE MIN_PERIOD

\* dict.get(key, default)
ParamGet(p, key, default) == IF key \in DOMAIN p THEN p[key] ELSE default

\* round(x, 4) of a rational: nearest multiple of 10^-4, ties to even
ROUND_DIGITS == 10000

Round4(x) ==
    IF ~IsFinite(x) THEN x
    ELSE LET n == Abs(x[1]) * ROUND_DIGITS
             q == n \div x[2]
             r == n % x[2]
             k == IF 2 * r < x[2] THEN q
                  ELSE IF 2 * r > x[2] THEN q + 1
                  ELSE IF q % 2 = 0 THEN q ELSE q + 1
         IN  Norm(Sign(x[1]) * k, ROUND_DIGITS)

(***************************************************************************)
(* round(sharpe, 4) of sign * sqrt(n/d): the integer square root of        *)
(* 10^8 * n/d by the pencil-and-paper method on base-100 digits, which     *)
(* keeps every intermediate number near the size of the root, then the     *)
(* nearest integer with ties to even.                                      *)
(***************************************************************************)
RECURSIVE Base100(_)
Base100(x) == IF x < 100 THEN << x >> ELSE Append(Base100(x \div 100), x % 100)

\* the next `count` base-100 digits of rem/d after the point, and what is left
RECURSIVE FracPairs(_, _, _)
FracPairs(rem, d, count) ==
    IF count = 0 THEN [pairs |-> << >>, rem |-> rem]
    ELSE LET rest == FracPairs((rem * 100) % d, d, count - 1)
         IN  [pairs |-> << (rem * 100) \div d >> \o rest.pairs, rem |-> rest.rem]

RECURSIVE SqrtPairs(_, _, _, _)
SqrtPairs(pairs, i, root, rem) ==
    IF i > Len(pairs) THEN [root |-> root, rem |-> rem]
    ELSE LET cur == rem * 100 + pairs[i]
             x == CHOOSE y \in 0..9 :
                      /\ (20 * root + y) * y <= cur
                      /\ y < 9 => (20 * root + y + 1) * (y + 1) > cur
         IN  SqrtPairs(pairs, i + 1, 10 * root + x, cur - (20 * root + x) * x)

RoundSurd4(v) ==
    IF IsNaN(v.sq) THEN NaN
    ELSE IF v.sign = 0 THEN F(0)
    ELSE LET n == v.sq[1]
             d == v.sq[2]
             frac == FracPairs(n % d, d, 4)
             sq == SqrtPairs(Base100(n \div d) \o frac.pairs, 1, 0, 0)
             k == sq.root
             up == \/ sq.rem > k
                   \/ sq.rem = k /\ 4 * frac.rem > d
                   \/ sq.rem = k /\ 4 * frac.rem = d /\ k % 2 = 1
         IN  Norm(v.sign * (IF up THEN k + 1 ELSE k), ROUND_DIGITS)

(***************************************************************************)
(* Inputs                                                                  *)
(***************************************************************************)
PriceVals == 0..MaxPrice

PriceSeries == UNION {[1..n -> PriceVals] : n \in 0..MaxLen}

SignalSeries(n) == [1..n -> {0, 1}]

PeriodVals == 0..(MaxLen + 1)

ParamKeys == {"fast", "slow"}

ParamsSet == UNION {[D -> PeriodVals] : D \in SUBSET ParamKeys}

StrategyNames == {"ma_crossover", "rsi"}

CapitalVals == {0, 1, DEFAULT_CAPITAL}

(***************************************************************************)
(* State                                                                   *)
(***************************************************************************)
VARIABLES
    prices,          \* df['Close'] of the call
    strategy,        \* strategy name given to run_backtest
    params,          \* params mapping given to run_backtest
    initial_capital, \* initial_capital of the call
    pc,              \* position of the call
    moving_avgs,     \* fast_ma and slow_ma, once computed
    signals,         \* signal series, once computed (or given to calculate_returns)
    equity_curve,    \* equity curve, once computed
    metrics,         \* sharpe, max_dd, total_ret, once computed
    result,          \* the dictionary run_backtest returns
    error,           \* the exception raised, if any
    risk_free_rate,  \* risk_free_rate of a calculate_sharpe_ratio call
    periods_per_year, \* periods_per_year of a calculate_sharpe_ratio call
    returned,        \* the value an analyzer function returned
    now,             \* the UTC clock, in ticks
    runs,            \* what the engine calls made so far returned or raised
    job_results,     \* api.py: the in-memory job store
    submitted,       \* the results submit_job answered with so far
    response,        \* the last HTTP response of the API
    request,         \* the body a client posts to /api/v1/jobs
    epoch,           \* the UTC second, counted from EPOCH_YEAR, at clock 0
    called           \* the functions the last request's handling invoked

vars == << prices, strategy, params, initial_capital, pc, moving_avgs, signals,
           equity_curve, metrics, result, error, risk_free_rate,
           periods_per_year, returned, now, runs, job_results, submitted,
           response, request, epoch, called >>

inputs == << prices, strategy, params, initial_capital >>

\* the clock, the calls made and the API's store
service == << now, runs, job_results, submitted, response, request, epoch,
             called >>

\* what one staged call of run_backtest or calculate_returns leaves alone
env == << risk_free_rate, periods_per_year, returned, service >>

\* nothing called or stored yet
ServiceIdle ==
    /\ now = 0
    /\ runs = << >>
    /\ job_results = << >>
    /\ submitted = << >>
    /\ response = None
    /\ request = None
    /\ epoch = 0
    /\ called = << >>

\* the defaults of calculate_sharpe_ratio, no analyzer function called directly
EnvIdle ==
    /\ risk_free_rate = F(0)
    /\ periods_per_year = PERIODS_PER_YEAR
    /\ returned = None
    /\ ServiceIdle

(***************************************************************************)
(* run_backtest, one action per stage                                      *)
(***************************************************************************)
Init ==
    /\ prices \in PriceSeries
    /\ strategy \in StrategyNames
    /\ params \in ParamsSet
    /\ initial_capital \in CapitalVals
    /\ pc = "start"
    /\ moving_avgs = None
    /\ signals = None
    /\ equity_curve = None
    /\ metrics = None
    /\ result = None
    /\ error = None
    /\ EnvIdle

\* mutant of ResolveStrategy: the periods are validated before the name
ResolveStrategy_ParamsFirst ==
    /\ pc = "start"
    /\ LET bad == ValidatePeriods(Len(prices), ParamGet(params, "fast", DEFAULT_FAST),
                                  ParamGet(params, "slow", DEFAULT_SLOW))
       IN  IF IsSome(bad)
           THEN /\ error' = Some(ValueError(Get(bad)))
                /\ pc' = "raised"
           ELSE IF strategy # "ma_crossover"
           THEN /\ error' = Some(ValueError(MsgUnknownStrategy))
                /\ pc' = "raised"
           ELSE /\ error' = error
                /\ pc' = "signals"
    /\ UNCHANGED << inputs, env, moving_avgs, signals, equity_curve, metrics, result >>

\* backtest.py 231-233: validate strategy
ResolveStrategy ==
    /\ pc = "start"
    /\ IF strategy # "ma_crossover"
       THEN /\ error' = Some(ValueError(MsgUnknownStrategy))
            /\ pc' = "raised"
       ELSE /\ error' = error
            /\ pc' = "signals"
    /\ UNCHANGED << inputs, env, moving_avgs, signals, equity_curve, metrics, result >>

\* backtest.py 235-240: extract parameters, generate signals
GenerateSignals ==
    /\ pc = "signals"
    /\ LET fast == ParamGet(params, "fast", DEFAULT_FAST)
           slow == ParamGet(params, "slow", DEFAULT_SLOW)
           out == calculate_ma_crossover_signals(prices, fast, slow)
       IN  /\ error' = out.error
           /\ moving_avgs' = (IF IsSome(out.error) THEN None
                              ELSE Some(<< Get(out.fast_ma), Get(out.slow_ma) >>))
           /\ signals' = out.signals
           /\ pc' = IF IsSome(out.error) THEN "raised" ELSE "returns"
    /\ UNCHANGED << inputs, env, equity_curve, metrics, result >>

\* backtest.py 242-243: calculate equity curve
SimulateEquity ==
    /\ pc = "returns"
    /\ equity_curve' = Some(calculate_returns(prices, Get(signals), initial_capital))
    /\ pc' = "metrics"
    /\ UNCHANGED << inputs, env, moving_avgs, signals, metrics, result, error >>

\* backtest.py 245-248: calculate metrics
Analyze(curve) ==
    [sharpe |-> calculate_sharpe_ratio(curve, F(0), PERIODS_PER_YEAR),
     max_dd |-> calculate_max_drawdown(curve),
     total_ret |-> calculate_total_return(curve)]

\* mutant of ComputeMetrics: the statistics of the price series
ComputeMetrics_OnPrices ==
    /\ pc = "metrics"
    /\ metrics' = Some(Analyze(ToFloat(prices)))
    /\ pc' = "assemble"
    /\ UNCHANGED << inputs, env, moving_avgs, signals, equity_curve, result, error >>

ComputeMetrics ==
    /\ pc = "metrics"
    /\ metrics' = Some(Analyze(Get(equity_curve)))
    /\ pc' = "assemble"
    /\ UNCHANGED << inputs, env, moving_avgs, signals, equity_curve, result, error >>

\* backtest.py 256-265: the returned dictionary
AssembleResult ==
    /\ pc = "assemble"
    /\ result' = Some([status |-> "completed",
                       sharpe |-> RoundSurd4(Get(metrics).sharpe),
                       max_drawdown |-> Round4(Get(metrics).max_dd),
                       total_return |-> Round4(Get(metrics).total_ret),
                       equity_curve |-> Get(equity_curve)])
    /\ pc' = "done"
    /\ UNCHANGED << inputs, env, moving_avgs, signals, equity_curve, metrics, error >>

Next ==
    \/ ResolveStrategy
    \/ GenerateSignals
    \/ SimulateEquity
    \/ ComputeMetrics
    \/ AssembleResult

Spec == Init /\ [][Next]_vars

(***************************************************************************)
(* calculate_returns called on its own with any aligned signal series,     *)
(* followed by the analyzer on the curve it returned                       *)
(***************************************************************************)
InitReturns ==
    /\ prices \in PriceSeries
    /\ \E sig \in SignalSeries(Len(prices)) : signals = Some(sig)
    /\ initial_capital \in CapitalVals
    /\ strategy = "ma_crossover"
    /\ params = << >>
    /\ pc = "call_returns"
    /\ moving_avgs = None
    /\ equity_curve = None
    /\ metrics = None
    /\ result = None
    /\ error = None
    /\ EnvIdle

\* backtest.py 85-117
CallReturns ==
    /\ pc = "call_returns"
    /\ equity_curve' = Some(calculate_returns(prices, Get(signals), initial_capital))
    /\ pc' = "call_metrics"
    /\ UNCHANGED << inputs, env, moving_avgs, signals, metrics, result, error >>

\* backtest.py 120-204
CallMetrics ==
    /\ pc = "call_metrics"
    /\ metrics' = Some(Analyze(Get(equity_curve)))
    /\ pc' = "returned"
    /\ UNCHANGED << inputs, env, moving_avgs, signals, equity_curve, result, error >>

NextReturns ==
    \/ CallReturns
    \/ CallMetrics

SpecReturns == InitReturns /\ [][NextReturns]_vars

(***************************************************************************)
(* Both entry points: run_backtest and calculate_returns called on its own *)
(***************************************************************************)
InitAll == Init \/ InitReturns

NextAll == Next \/ NextReturns

SpecAll == InitAll /\ [][NextAll]_vars

(***************************************************************************)
(* run_backtest on the inputs it completes on: a registered strategy and   *)
(* 2 <= fast < slow <= len(prices)                                         *)
(***************************************************************************)
InitValid ==
    /\ Init
    /\ strategy = "ma_crossover"
    /\ MIN_PERIOD <= ParamGet(params, "fast", DEFAULT_FAST)
    /\ ParamGet(params, "fast", DEFAULT_FAST) < ParamGet(params, "slow", DEFAULT_SLOW)
    /\ ParamGet(params, "slow", DEFAULT_SLOW) <= Len(prices)

SpecValid == InitValid /\ [][Next]_vars

(***************************************************************************)
(* The analyzer functions called on their own with any equity curve of     *)
(* non-negative values, and calculate_sharpe_ratio with any rate and       *)
(* number of periods                                                       *)
(***************************************************************************)
EquityVals == {F(v) : v \in 0..MaxEquity}

EquityCurves == UNION {[1..n -> EquityVals] : n \in 0..MaxLen}

RateVals == {F(0), F(1)}

PeriodsVals == {0, 1, PERIODS_PER_YEAR}

InitAnalyzer ==
    /\ equity_curve \in {Some(c) : c \in EquityCurves}
    /\ risk_free_rate \in RateVals
    /\ periods_per_year \in PeriodsVals
    /\ returned = None
    /\ ServiceIdle
    /\ pc = "call_analyzer"
    /\ prices = << >>
    /\ strategy = "ma_crossover"
    /\ params = << >>
    /\ initial_capital = DEFAULT_CAPITAL
    /\ moving_avgs = None
    /\ signals = None
    /\ metrics = None
    /\ result = None
    /\ error = None

\* backtest.py 120-155
CallSharpeRatio ==
    /\ pc = "call_analyzer"
    /\ IF SharpeRaises(Get(equity_curve), periods_per_year)
       THEN /\ error' = Some(ZeroDivisionError)
            /\ returned' = returned
            /\ pc' = "sharpe_raised"
       ELSE /\ error' = error
            /\ returned' = Some(calculate_sharpe_ratio(Get(equity_curve),
                                    risk_free_rate, periods_per_year))
            /\ pc' = "sharpe_returned"
    /\ UNCHANGED << inputs, moving_avgs, signals, equity_curve, metrics, result,
                    risk_free_rate, periods_per_year, service >>

\* backtest.py 158-180
CallMaxDrawdown ==
    /\ pc = "call_analyzer"
    /\ returned' = Some(calculate_max_drawdown(Get(equity_curve)))
    /\ pc' = "drawdown_returned"
    /\ UNCHANGED << inputs, moving_avgs, signals, equity_curve, metrics, result,
                    error, risk_free_rate, periods_per_year, service >>

\* backtest.py 183-204
CallTotalReturn ==
    /\ pc = "call_analyzer"
    /\ returned' = Some(calculate_total_return(Get(equity_curve)))
    /\ pc' = "total_returned"
    /\ UNCHANGED << inputs, moving_avgs, signals, equity_curve, metrics, result,
                    error, risk_free_rate, periods_per_year, service >>

NextAnalyzer ==
    \/ CallSharpeRatio
    \/ CallMaxDrawdown
    \/ CallTotalReturn

SpecAnalyzer == InitAnalyzer /\ [][NextAnalyzer]_vars

(***************************************************************************)
(* run_backtest as one step: the outcome of a call, either the error it    *)
(* raises or the statistics and curve of the dictionary it returns         *)
(***************************************************************************)
BacktestOutcome(df, strategy_name, parameters, capital) ==
    IF strategy_name # "ma_crossover"
    THEN [error |-> Some(ValueError(MsgUnknownStrategy)), result |-> None]
    ELSE LET fast == ParamGet(parameters, "fast", DEFAULT_FAST)
             slow == ParamGet(parameters, "slow", DEFAULT_SLOW)
             out == calculate_ma_crossover_signals(df, fast, slow)
         IN  IF IsSome(out.error) THEN [error |-> out.error, result |-> None]
             ELSE LET curve == calculate_returns(df, Get(out.signals), capital)
                      m == Analyze(curve)
                  IN  [error |-> None,
                       result |-> Some([status |-> "completed",
                                        sharpe |-> RoundSurd4(m.sharpe),
                                        max_drawdown |-> Round4(m.max_dd),
                                        total_return |-> Round4(m.total_ret),
                                        equity_curve |-> curve])]

(***************************************************************************)
(* run_backtest on series long enough for the default periods, with some,  *)
(* all or none of the periods given                                        *)
(***************************************************************************)
Repeat(base, n) == [i \in 1..n |-> base[((i - 1) % Len(base)) + 1]]

LongLens == (DEFAULT_SLOW - 1)..(DEFAULT_SLOW + MaxExtra)

\* positive prices in a pattern of three
LongSeries ==
    {Repeat(base, n) : base \in [1..3 -> PriceVals \ {0}], n \in LongLens}

\* periods around the defaults, and one below the minimum
LongPeriodVals ==
    {MIN_PERIOD - 1, DEFAULT_FAST, DEFAULT_SLOW - 1, DEFAULT_SLOW, DEFAULT_SLOW + 1}

LongParamsSet == UNION {[D -> LongPeriodVals] : D \in SUBSET ParamKeys}

InitDefaults ==
    /\ prices \in LongSeries
    /\ strategy \in StrategyNames
    /\ params \in LongParamsSet
    /\ initial_capital \in {1, DEFAULT_CAPITAL}
    /\ pc = "start"
    /\ moving_avgs = None
    /\ signals = None
    /\ equity_curve = None
    /\ metrics = None
    /\ result = None
    /\ error = None
    /\ EnvIdle

SpecDefaults == InitDefaults /\ [][Next]_vars

(***************************************************************************)
(* run_backtest with its identifier and timing fields.  The call starts at *)
(* clock reading `start` and reaches the job id `elapsed` ticks later;     *)
(* created_at is read in the same tick.                                    *)
(***************************************************************************)
\* f"{prefix}-{timestamp}" with the timestamp cut to whole seconds
\* the year whose first second is second 0 of the clock
EPOCH_YEAR == 2000

IsLeap(y) == (y % 4 = 0 /\ y % 100 # 0) \/ y % 400 = 0

DaysInYear(y) == IF IsLeap(y) THEN 366 ELSE 365

DaysInMonth(y, m) ==
    IF m = 2 THEN (IF IsLeap(y) THEN 29 ELSE 28)
    ELSE IF m \in {4, 6, 9, 11} THEN 30 ELSE 31

RECURSIVE YearOf(_, _)
YearOf(y, d) ==
    IF d < DaysInYear(y) THEN [year |-> y, day |-> d]
    ELSE YearOf(y + 1, d - DaysInYear(y))

RECURSIVE MonthOf(_, _, _)
MonthOf(y, m, d) ==
    IF d < DaysInMonth(y, m) THEN [month |-> m, day |-> d + 1]
    ELSE MonthOf(y, m + 1, d - DaysInMonth(y, m))

\* datetime.utcnow() at a clock reading, as calendar fields
utcnow(clock) ==
    LET sec == clock \div TICKS_PER_SECOND
        yd  == YearOf(EPOCH_YEAR, sec \div 86400)
        md  == MonthOf(yd.year, 1, yd.day)
    IN  [Y |-> yd.year, m |-> md.month, d |-> md.day,
         H |-> (sec % 86400) \div 3600, M |-> (sec % 3600) \div 60, S |-> sec % 60]

\* a string is the sequence of its characters' codes
Chr(c) == IF c = "-" THEN 45 ELSE 63

RECURSIVE Digits(_, _)
Digits(n, width) ==
    IF width = 0 THEN << >>
    ELSE Append(Digits(n \div 10, width - 1), 48 + (n % 10))

\* datetime.strftime: fmt is the format's directives, "%Y" four digits, the
\* other fields two, anything else literally
RECURSIVE strftime(_, _)
strftime(t, fmt) ==
    IF fmt = << >> THEN << >>
    ELSE LET f == Head(fmt)
         IN  (IF f = "%Y" THEN Digits(t.Y, 4)
              ELSE IF f = "%m" THEN Digits(t.m, 2)
              ELSE IF f = "%d" THEN Digits(t.d, 2)
              ELSE IF f = "%H" THEN Digits(t.H, 2)
              ELSE IF f = "%M" THEN Digits(t.M, 2)
              ELSE IF f = "%S" THEN Digits(t.S, 2)
              ELSE << Chr(f) >>) \o strftime(t, Tail(fmt))

\* f"{prefix}-{timestamp}": the prefix and what follows its hyphen
FormatId(prefix, timestamp) == [prefix |-> prefix, timestamp |-> timestamp]

\* mutant of generate_job_id: the day is written first
generate_job_id_DayFirst(prefix, clock) ==
    FormatId(prefix, strftime(utcnow(clock),
                              << "%d", "%m", "%Y", "-", "%H", "%M", "%S" >>))

\* backtest.py 268-279
generate_job_id(prefix, clock) ==
    FormatId(prefix, strftime(utcnow(clock),
                              << "%Y", "%m", "%d", "-", "%H", "%M", "%S" >>))

\* the id a client asks for: a prefix and a second
JobId(prefix, clock) == generate_job_id(prefix, clock)

\* backtest.py 251-252
ManualJobId(clock) ==
    FormatId("manual", strftime(utcnow(clock),
                                << "%Y", "%m", "%d", "-", "%H", "%M", "%S" >>))

\* mutant of run_backtest: the time of the call is appended to the curve
run_backtest_Stamped(df, strategy_name, parameters, capital, start, elapsed) ==
    LET out == BacktestOutcome(df, strategy_name, parameters, capital)
    IN  IF IsSome(out.error) THEN out
        ELSE [error |-> None,
              result |-> Some([job_id |-> ManualJobId(start + elapsed),
                               runtime_seconds |-> Norm(elapsed, TICKS_PER_SECOND),
                               created_at |-> start + elapsed,
                               equity_curve |->
                                   Append(Get(out.result).equity_curve,
                                          F(start + elapsed))]
                              @@ Get(out.result))]

run_backtest(df, strategy_name, parameters, capital, start, elapsed) ==
    LET out == BacktestOutcome(df, strategy_name, parameters, capital)
    IN  IF IsSome(out.error) THEN out
        ELSE [error |-> None,
              result |-> Some([job_id |-> ManualJobId(start + elapsed),
                               runtime_seconds |-> Norm(elapsed, TICKS_PER_SECOND),
                               created_at |-> start + elapsed]
                              @@ Get(out.result))]

\* time passes between calls
Tick ==
    /\ now < MaxClock
    /\ now' = now + 1
    /\ UNCHANGED << inputs, pc, moving_avgs, signals, equity_curve, metrics,
                    result, error, risk_free_rate, periods_per_year, returned,
                    runs, job_results, submitted, response, request, epoch,
                    called >>

(***************************************************************************)
(* run_backtest called repeatedly with the same arguments                  *)
(***************************************************************************)
RepeatParamsSet ==
    UNION {[D -> {MIN_PERIOD, MIN_PERIOD + 1}] : D \in {{}, ParamKeys}}

InitRepeat ==
    /\ prices \in PriceSeries
    /\ strategy \in StrategyNames
    /\ params \in RepeatParamsSet
    /\ initial_capital = DEFAULT_CAPITAL
    /\ pc = "idle"
    /\ moving_avgs = None
    /\ signals = None
    /\ equity_curve = None
    /\ metrics = None
    /\ result = None
    /\ error = None
    /\ EnvIdle

\* the clock reading as ticks since the first second of EPOCH_YEAR
Clock == epoch * TICKS_PER_SECOND + now

\* backtest.py 207-265, one whole call
InvokeBacktest ==
    /\ pc = "idle"
    /\ Len(runs) < MaxCalls
    /\ \E elapsed \in 0..1 :
           /\ now + elapsed <= MaxClock
           /\ now' = now + elapsed
           /\ runs' = Append(runs, run_backtest(prices, strategy, params,
                                                 initial_capital, Clock, elapsed))
    /\ UNCHANGED << inputs, pc, moving_avgs, signals, equity_curve, metrics,
                    result, error, risk_free_rate, periods_per_year, returned,
                    job_results, submitted, response, request, epoch, called >>

NextRepeat ==
    \/ InvokeBacktest
    \/ Tick

SpecRepeat == InitRepeat /\ [][NextRepeat]_vars

(***************************************************************************)
(* Job identifiers generated around the roll-over of each calendar field   *)
(***************************************************************************)
DAY == 86400

\* seconds of EPOCH_YEAR and the next year just before a field rolls over:
\* second 9, the minute, the hour, the day, day 9, January, 28 and 29
\* February of a leap year, September, the year, and 28 February of the
\* year after
StartInstants ==
    {0, 9, 59, 3599, DAY - 1, 9 * DAY - 1, 31 * DAY - 1, 59 * DAY - 1,
     60 * DAY - 1, 274 * DAY - 1, 366 * DAY - 1, (366 + 59) * DAY - 1}

Prefixes == {"manual", "auto"}

InitJobId ==
    /\ prices = << 1, 2, 2 >>
    /\ strategy = "ma_crossover"
    /\ params = [fast |-> MIN_PERIOD, slow |-> MIN_PERIOD + 1]
    /\ initial_capital = DEFAULT_CAPITAL
    /\ pc = "idle"
    /\ moving_avgs = None
    /\ signals = None
    /\ equity_curve = None
    /\ metrics = None
    /\ result = None
    /\ error = None
    /\ risk_free_rate = F(0)
    /\ periods_per_year = PERIODS_PER_YEAR
    /\ returned = None
    /\ now = 0
    /\ runs = << >>
    /\ job_results = << >>
    /\ submitted = << >>
    /\ response = None
    /\ request = None
    /\ epoch \in StartInstants
    /\ called = << >>

\* backtest.py 268-279, one call
GenerateJobId ==
    /\ pc = "idle"
    /\ Len(runs) < MaxCalls
    /\ \E prefix \in Prefixes :
           runs' = Append(runs, [error |-> None,
                                 result |-> Some([job_id |-> generate_job_id(prefix, Clock),
                                                  created_at |-> Clock])])
    /\ UNCHANGED << inputs, pc, moving_avgs, signals, equity_curve, metrics,
                    result, error, risk_free_rate, periods_per_year, returned,
                    now, job_results, submitted, response, request, epoch, called >>

NextJobId ==
    \/ GenerateJobId
    \/ InvokeBacktest
    \/ Tick

SpecJobId == InitJobId /\ [][NextJobId]_vars

(***************************************************************************)
(* The HTTP API (src/src/api.py) over the data fetcher (src/src/data.py)   *)
(***************************************************************************)
\* what the data provider returns for a symbol: its Close column
Market ==
    [AAPL |-> << 1, 2, 2, 1 >>, MSFT |-> << 2, 1, 2, 2 >>, TSLA |-> << 1 >>,
     ZZZZ |-> << >>]

Symbols == DOMAIN Market

\* dates as day numbers; the request's start is day 0
StartDay == 0

EndDays == {None, Some(0), Some(1)}

DataFetchError(msg) == [kind |-> "DataFetchError", msg |-> msg]

\* data.py 12-90
fetch_ohlcv(symbol, start, end) ==
    IF IsSome(end) /\ Get(end) <= start
    THEN [error |-> Some(ValueError("must be after start date")), df |-> None]
    ELSE LET df == Market[symbol]
         IN  IF Len(df) = 0
             THEN [error |-> Some(DataFetchError("No data returned")), df |-> None]
             ELSE IF Len(df) < 2
             THEN [error |-> Some(DataFetchError("Insufficient data")), df |-> None]
             ELSE [error |-> None, df |-> Some(df)]

\* models.py 8-10
StrategyType == {"ma_crossover"}

\* a JSON value of a request's params: an integer or a string
JsonInt(n) == [type |-> "int", val |-> n]

JsonStr == [type |-> "str", val |-> 0]

RequestInts == (MIN_PERIOD - 2)..(MIN_PERIOD + 2)

RequestValues == {JsonInt(n) : n \in RequestInts} \cup {JsonStr}

RequestParams == UNION {[D -> RequestValues] : D \in SUBSET ParamKeys}

RequestBodies == [strategy : StrategyNames, params : RequestParams]

\* models.py 55-73: the checks apply when both periods are given
validate_params(v) ==
    IF "fast" \in DOMAIN v /\ "slow" \in DOMAIN v
    THEN IF v["fast"].type # "int" \/ v["slow"].type # "int"
         THEN Some(ValueError("fast and slow must be integers"))
         ELSE IF v["fast"].val <= 0 \/ v["slow"].val <= 0
         THEN Some(ValueError("fast and slow must be positive"))
         ELSE IF v["fast"].val >= v["slow"].val
         THEN Some(ValueError("fast period must be less than slow period"))
         ELSE None
    ELSE None

\* str >= int in Python
TypeError == [kind |-> "TypeError", msg |-> "'>=' not supported"]

\* api.py 103-107: run_backtest on the params as the request carries them;
\* backtest.py 62 compares the periods and raises TypeError on a string
EngineCall(df, strategy_name, v, start, elapsed) ==
    IF strategy_name = "ma_crossover" /\ \E k \in DOMAIN v : v[k].type # "int"
    THEN [error |-> Some(TypeError), result |-> None]
    ELSE run_backtest(df, strategy_name, [k \in DOMAIN v |-> v[k].val],
                      DEFAULT_CAPITAL, start, elapsed)

\* one entry of the call trace: the function and the kind of exception it
\* raised, "none" when it returned
Call(fn, raised) == [fn |-> fn, raised |-> raised]

\* FastAPI's answer to a body that BacktestRequest rejects
ValidationError == [status_code |-> 422, body |-> [detail |-> "validation error"]]

\* raise HTTPException, answered by http_exception_handler
HTTPError(status_code, detail) ==
    [status_code |-> status_code, body |-> [error |-> detail]]

\* mutant of FetchFailure: a fetch failure is an internal error
FetchFailure_Internal(e) == HTTPError(500, "Internal server error")

\* api.py 88-99: what fetch_ohlcv raised, as an HTTPException
FetchFailure(e) ==
    HTTPError(400, IF e.kind = "DataFetchError"
                   THEN "Failed to fetch data" ELSE "Invalid parameters")

\* mutant of BacktestFailure: every engine failure is the client's fault
BacktestFailure_BadRequest(e) == HTTPError(400, "Backtest execution failed")

\* api.py 109-120: what run_backtest raised, as an HTTPException
BacktestFailure(e) ==
    IF e.kind = "ValueError" THEN HTTPError(400, "Backtest execution failed")
    ELSE HTTPError(500, "Internal error during backtest")

\* return BacktestResponse(...)
BacktestResponse(stored) ==
    [status_code |-> 200,
     body |-> [job_id |-> stored.job_id,
               status |-> "completed",
               sharpe |-> stored.sharpe,
               max_drawdown |-> stored.max_drawdown,
               total_return |-> stored.total_return,
               equity_curve |-> stored.equity_curve,
               runtime_seconds |-> stored.runtime_seconds,
               created_at |-> stored.created_at]]

\* mutant of StoreResult: the result is filed under another prefix
StoreResult_Rekeyed(store, stored) ==
    LET key == generate_job_id("auto", stored.created_at)
    IN  [id \in DOMAIN store \cup {key} |-> IF id = key THEN stored ELSE store[id]]

\* mutant of StoreResult: the store keeps the latest result only
StoreResult_Latest(store, stored) == [id \in {stored.job_id} |-> stored]

\* api.py 123: job_results[result["job_id"]] = result
StoreResult(store, stored) ==
    [id \in DOMAIN store \cup {stored.job_id} |->
        IF id = stored.job_id THEN stored ELSE store[id]]

\* mutant of get_job: any stored job answers a request for an unknown id
get_job_AnyStored(store, job_id) ==
    IF DOMAIN store = {} THEN HTTPError(404, "Job not found")
    ELSE IF job_id \in DOMAIN store THEN BacktestResponse(store[job_id])
    ELSE BacktestResponse(store[CHOOSE id \in DOMAIN store : TRUE])

\* api.py 147-181
get_job(store, job_id) ==
    IF job_id \notin DOMAIN store THEN HTTPError(404, "Job not found")
    ELSE BacktestResponse(store[job_id])

\* the ids a client may ask for
JobIds == {JobId(prefix, t) : prefix \in Prefixes, t \in 0..MaxClock}

\* the job of an earlier request, completed at clock 0
PriorJob ==
    Get(run_backtest(Market["AAPL"], "ma_crossover",
                     [fast |-> MIN_PERIOD, slow |-> MIN_PERIOD + 1],
                     DEFAULT_CAPITAL, 0, 0).result)

\* the service is fresh or holds the job of one earlier request
InitApi ==
    /\ now = 0
    /\ runs = << >>
    /\ submitted \in {<< >>, << PriorJob >>}
    /\ job_results = IF submitted = << >> THEN << >>
                     ELSE StoreResult(<< >>, submitted[1])
    /\ response = None
    /\ request \in RequestBodies
    /\ epoch = 0
    /\ called = << >>
    /\ pc = "serving"
    /\ prices = << >>
    /\ strategy = "ma_crossover"
    /\ params = << >>
    /\ initial_capital = DEFAULT_CAPITAL
    /\ moving_avgs = None
    /\ signals = None
    /\ equity_curve = None
    /\ metrics = None
    /\ result = None
    /\ error = None
    /\ risk_free_rate = F(0)
    /\ periods_per_year = PERIODS_PER_YEAR
    /\ returned = None

\* api.py 60-144: one request to POST /api/v1/jobs with the client's body
SubmitJob ==
    /\ pc = "serving"
    /\ Len(submitted) < MaxCalls
    /\ \E symbol \in Symbols, end \in EndDays, elapsed \in 0..1 :
           /\ now + elapsed <= MaxClock
           /\ now' = now + elapsed
           /\ IF request.strategy \notin StrategyType
                 \/ IsSome(validate_params(request.params))
              THEN /\ response' = ValidationError
                   /\ called' = << Call("BacktestRequest", "ValidationError") >>
                   /\ UNCHANGED << job_results, submitted >>
              ELSE \E fetched \in {fetch_ohlcv(symbol, StartDay, end)} :
                  IF IsSome(fetched.error)
                  THEN /\ response' = FetchFailure(Get(fetched.error))
                       /\ called' = << Call("BacktestRequest", "none"),
                                       Call("fetch_ohlcv", Get(fetched.error).kind) >>
                       /\ UNCHANGED << job_results, submitted >>
                  ELSE \E out \in {EngineCall(Get(fetched.df), request.strategy,
                                              request.params, Clock, elapsed)} :
                          IF IsSome(out.error)
                          THEN /\ response' = BacktestFailure(Get(out.error))
                               /\ called' = << Call("BacktestRequest", "none"),
                                               Call("fetch_ohlcv", "none"),
                                               Call("run_backtest", Get(out.error).kind) >>
                               /\ UNCHANGED << job_results, submitted >>
                          ELSE \E stored \in {Get(out.result)} :
                                  /\ job_results' = StoreResult(job_results, stored)
                                  /\ response' = BacktestResponse(stored)
                                  /\ submitted' = Append(submitted, stored)
                                  /\ called' = << Call("BacktestRequest", "none"),
                                                  Call("fetch_ohlcv", "none"),
                                                  Call("run_backtest", "none") >>
    /\ UNCHANGED << inputs, pc, moving_avgs, signals, equity_curve, metrics,
                    result, error, risk_free_rate, periods_per_year, returned,
                    runs, request, epoch >>

\* api.py 147-181: one request to GET /api/v1/jobs/{job_id}
GetJob ==
    /\ pc = "serving"
    /\ \E job_id \in JobIds :
           /\ response' = get_job(job_results, job_id)
           /\ called' = << Call("get_job", IF job_id \in DOMAIN job_results
                                           THEN "none" ELSE "HTTPException") >>
    /\ UNCHANGED << inputs, pc, moving_avgs, signals, equity_curve, metrics,
                    result, error, risk_free_rate, periods_per_year, returned,
                    now, runs, job_results, submitted, request, epoch >>

NextApi ==
    \/ SubmitJob
    \/ GetJob
    \/ Tick

SpecApi == InitApi /\ [][NextApi]_vars

(***************************************************************************)
(* Definitions shared by the properties                                    *)
(***************************************************************************)
Fast == ParamGet(params, "fast", DEFAULT_FAST)

Slow == ParamGet(params, "slow", DEFAULT_SLOW)

KnownStrategy == strategy = "ma_crossover"

ValidInput == MIN_PERIOD <= Fast /\ Fast < Slow /\ Slow <= Len(prices)

PositivePrices(p) == \A i \in 1..Len(p) : p[i] > 0

\* the whole pipeline of run_backtest on another price series
PipelineEquity(p) ==
    calculate_returns(p, Get(calculate_ma_crossover_signals(p, Fast, Slow).signals),
                      initial_capital)

StepFactor(p, sig, i) ==
    FAdd(F(1), FMul(F(sig[i - 1]), FSub(FDiv(F(p[i]), F(p[i - 1])), F(1))))

RECURSIVE FactorProduct(_, _, _)
FactorProduct(p, sig, i) ==
    IF i <= 1 THEN F(1)
    ELSE FMul(FactorProduct(p, sig, i - 1), StepFactor(p, sig, i))

C2_Compounding ==
    pc \in {"call_metrics", "returned"} /\ PositivePrices(prices) =>
        LET eq == Get(equity_curve)
        IN  /\ Len(eq) = Len(prices)
            /\ \A i \in 1..Len(eq) :
                  /\ eq[i] = FMul(F(initial_capital),
                                  FactorProduct(prices, Get(signals), i))
                  /\ i >= 2 => eq[i] = FMul(eq[i - 1], StepFactor(prices, Get(signals), i))

\* a mixed signal series over positive prices whose curve rises and falls
C2_Witness ==
    /\ pc = "returned"
    /\ PositivePrices(prices)
    /\ Len(prices) >= 4
    /\ \E i, j \in 1..(Len(prices) - 1) : Get(signals)[i] = 1 /\ Get(signals)[j] = 0
    /\ \E i \in 2..Len(prices) : FLt(Get(equity_curve)[i], Get(equity_curve)[i - 1])
    /\ \E i \in 2..Len(prices) : FGt(Get(equity_curve)[i], Get(equity_curve)[i - 1])

(***************************************************************************)
(* C3: the first value of the equity curve is the initial capital, for     *)
(* calculate_returns on any prices and signals and for the equity_curve of *)
(* the dictionary run_backtest returns.                                    *)
(***************************************************************************)
C3_FirstValue ==
    /\ IsSome(equity_curve) /\ Len(prices) >= 1 =>
           Get(equity_curve)[1] = F(initial_capital)
    /\ IsSome(result) =>
           Get(result).equity_curve[1] = F(initial_capital)

\* a returned result whose curve starts at a capital it later leaves
C3_Witness ==
    /\ pc = "done"
    /\ initial_capital = DEFAULT_CAPITAL
    /\ Get(result).equity_curve[1] = F(DEFAULT_CAPITAL)
    /\ Get(result).equity_curve[Len(prices)] # F(DEFAULT_CAPITAL)

(***************************************************************************)
(* C4: for valid input the signal series, the price series and the equity  *)
(* curve have one length, and so has the curve run_backtest returns.       *)
(***************************************************************************)
C4_Lengths ==
    KnownStrategy /\ ValidInput =>
        /\ pc # "raised"
        /\ IsSome(signals) => Len(Get(signals)) = Len(prices)
        /\ IsSome(equity_curve) => Len(Get(equity_curve)) = Len(prices)
        /\ IsSome(result) => Len(Get(result).equity_curve) = Len(prices)

C4_Witness ==
    /\ pc = "done"
    /\ ValidInput
    /\ Len(prices) > Slow
    /\ Len(Get(result).equity_curve) = Len(prices)

(***************************************************************************)
(* C5: signal rule.  Every signal is 0 or 1; it is 1 exactly at an index   *)
(* with both averages defined (at least `slow` closes seen) where the mean *)
(* of the last `fast` closes is strictly above the mean of the last `slow` *)
(* closes.                                                                 *)
(***************************************************************************)
\* mean of the last f closes > mean of the last s closes, in integers
FastAboveSlow(p, i, f, s) ==
    SumRange(p, i - f + 1, i) * s > SumRange(p, i - s + 1, i) * f

FastEqualsSlow(p, i, f, s) ==
    SumRange(p, i - f + 1, i) * s = SumRange(p, i - s + 1, i) * f

BadParameters ==
    \/ Fast >= Slow
    \/ Fast < MIN_PERIOD
    \/ Slow < MIN_PERIOD
    \/ Len(prices) < Slow

PastSignals == KnownStrategy /\ pc \notin {"start", "signals"}

C6_ParameterError ==
    PastSignals =>
        /\ pc = "raised" <=> BadParameters
        /\ pc = "raised" =>
              /\ IsSome(error) /\ Get(error).kind = "ValueError"
              /\ Get(error).msg \in {MsgOrdering, MsgTooSmall, MsgInsufficient}
              /\ moving_avgs = None /\ signals = None
              /\ equity_curve = None /\ metrics = None /\ result = None
        /\ pc # "raised" =>
              /\ error = None
              /\ IsSome(moving_avgs) /\ IsSome(signals)

\* the shortest series a slow period accepts, and the signals it returned
C6_Witness ==
    /\ PastSignals
    /\ Len(prices) = Slow
    /\ pc = "done"
    /\ IsSome(signals)

(***************************************************************************)
(* C7 as stated: whenever len(prices) < slow, whatever fast and slow are,  *)
(* the error raised is the one that reports insufficient data.  Stated for *)
(* well-formed series (two or more positive prices) and periods that are   *)
(* both given and at least 2, where only their order can be at fault.      *)
(***************************************************************************)
C7_Original ==
    /\ PastSignals
    /\ Len(prices) >= 2 /\ PositivePrices(prices)
    /\ DOMAIN params = ParamKeys
    /\ Fast >= MIN_PERIOD /\ Slow >= MIN_PERIOD
    /\ Len(prices) < Slow
    => /\ pc = "raised"
       /\ Get(error).msg = MsgInsufficient

(***************************************************************************)
(* C7 amended: whenever len(prices) < slow a parameter error is raised; it *)
(* reports insufficient data exactly when the periods themselves are valid *)
(* (2 <= fast < slow); with fast >= slow it reports the ordering, and with *)
(* fast < slow and fast < 2 the minimum period.                            *)
(***************************************************************************)
C7_Insufficient ==
    PastSignals /\ Len(prices) < Slow =>
        /\ pc = "raised"
        /\ Get(error).kind = "ValueError"
        /\ Get(error).msg = MsgInsufficient <=> (MIN_PERIOD <= Fast /\ Fast < Slow)
        /\ Fast >= Slow => Get(error).msg = MsgOrdering
        /\ (Fast < Slow /\ Fast < MIN_PERIOD) => Get(error).msg = MsgTooSmall

\* a short series with valid periods, reported as insufficient data
C7_Witness ==
    /\ PastSignals
    /\ Len(prices) < Slow
    /\ Len(prices) >= 2
    /\ MIN_PERIOD <= Fast /\ Fast < Slow
    /\ pc = "raised"
    /\ Get(error).msg = MsgInsufficient

(***************************************************************************)
(* C8: an unregistered strategy name raises the unknown-strategy error for *)
(* every params mapping and price series, before parameter validation, and *)
(* no moving average, signal, equity or statistic is computed.             *)
(***************************************************************************)
C8_UnknownStrategy ==
    ~KnownStrategy /\ pc # "start" =>
        /\ pc = "raised"
        /\ error = Some(ValueError(MsgUnknownStrategy))
        /\ moving_avgs = None /\ signals = None
        /\ equity_curve = None /\ metrics = None /\ result = None

\* an unknown strategy with periods out of order and too short a series
C8_Witness ==
    /\ ~KnownStrategy
    /\ pc = "raised"
    /\ Fast >= Slow
    /\ Len(prices) < Slow
    /\ error = Some(ValueError(MsgUnknownStrategy))

(***************************************************************************)
(* C9: with every signal 0 and positive prices, calculate_returns gives an *)
(* equity curve equal to the initial capital at every index.               *)
(***************************************************************************)
AllFlat(sig) == \A i \in 1..Len(sig) : sig[i] = 0

C9_AllFlat ==
    pc \in {"call_metrics", "returned"} /\ AllFlat(Get(signals))
        /\ PositivePrices(prices) =>
        /\ Len(Get(equity_curve)) = Len(prices)
        /\ \A i \in 1..Len(prices) : Get(equity_curve)[i] = F(initial_capital)

\* flat signals over positive prices that do move
C9_Witness ==
    /\ pc = "returned"
    /\ AllFlat(Get(signals))
    /\ PositivePrices(prices)
    /\ Len(prices) >= 3
    /\ \E i \in 2..Len(prices) : prices[i] # prices[i - 1]
    /\ initial_capital > 0

(***************************************************************************)
(* C10 as stated: strictly increasing positive prices and a signal that is *)
(* flat during warm-up and long at every index after it give total return *)
(* > 0 and maximum drawdown 0.                                             *)
(***************************************************************************)
Increasing(p) == \A i \in 2..Len(p) : p[i] > p[i - 1]

\* flat on 1..w, long on w+1..Len, at least one long index
LongAfterWarmUp(sig, w) ==
    /\ w < Len(sig)
    /\ \A i \in 1..Len(sig) : sig[i] = (IF i <= w THEN 0 ELSE 1)

C10_Case(w) ==
    /\ pc = "returned"
    /\ Len(prices) >= 2
    /\ initial_capital > 0
    /\ PositivePrices(prices)
    /\ Increasing(prices)
    /\ LongAfterWarmUp(Get(signals), w)

Values == [i \in 1..Len(Get(equity_curve)) |-> Get(equity_curve)[i][1]]

PositiveCurve(v) == \A i \in 1..Len(v) : v[i] > 0

NonDecreasing(v) == \A i \in 2..Len(v) : v[i] >= v[i - 1]

NonIncreasing(v) == \A i \in 2..Len(v) : v[i] <= v[i - 1]

\* max(v[0..i]) in integers
PeakUpTo(v, i) == CHOOSE m \in {v[j] : j \in 1..i} : \A j \in 1..i : v[j] <= m

(***************************************************************************)
(* C11: for an equity curve of positive values with at least 2 points      *)
(* calculate_max_drawdown returns the minimum over i of                    *)
(* (v[i] - max(v[0..i])) / max(v[0..i]); with fewer than 2 points it       *)
(* returns 0.  It is 0 exactly when the curve is non-decreasing, and for a *)
(* non-increasing curve it is (last - first) / first.                      *)
(***************************************************************************)
C11_MaxDrawdown ==
    pc = "drawdown_returned" =>
        LET v == Values
            r == Get(returned)
        IN  /\ Len(v) < 2 => r = F(0)
            /\ (Len(v) >= 2 /\ PositiveCurve(v)) =>
                  /\ IsFinite(r)
                  /\ \E i \in 1..Len(v) :
                         r = Norm(v[i] - PeakUpTo(v, i), PeakUpTo(v, i))
                  /\ \A i \in 1..Len(v) :
                         r[1] * PeakUpTo(v, i) <= (v[i] - PeakUpTo(v, i)) * r[2]
                  /\ r = F(0) <=> NonDecreasing(v)
                  /\ NonIncreasing(v) => r = Norm(v[Len(v)] - v[1], v[1])

\* a curve that rises, falls below an earlier peak and recovers partly
C11_Witness ==
    /\ pc = "drawdown_returned"
    /\ PositiveCurve(Values)
    /\ Len(Values) = 4
    /\ ~NonDecreasing(Values) /\ ~NonIncreasing(Values)
    /\ Values[4] > Values[3] /\ Values[4] < Values[2]
    /\ Get(returned) = Norm(Values[3] - Values[2], Values[2])

(***************************************************************************)
(* C12: the maximum drawdown is a number <= 0 for every equity curve of    *)
(* non-negative values, and so is the max_drawdown field of every result   *)
(* run_backtest returns with initial_capital >= 0, 0 included.  Stated for *)
(* the results of runs over positive prices.                               *)
(***************************************************************************)
C12_NonPositive ==
    pc = "done" /\ PositivePrices(prices) /\ initial_capital >= 0 =>
        /\ IsFinite(Get(result).max_drawdown)
        /\ FLe(Get(result).max_drawdown, F(0))

(***************************************************************************)
(* C13: calculate_total_return returns (last - first) / first for a curve  *)
(* with at least 2 points and a non-zero first value, and 0 for a curve    *)
(* with fewer than 2 points or a first value of 0.                         *)
(***************************************************************************)
C13_TotalReturn ==
    pc = "total_returned" =>
        LET v == Values
            r == Get(returned)
        IN  /\ (Len(v) >= 2 /\ v[1] # 0) => r = Norm(v[Len(v)] - v[1], v[1])
            /\ Len(v) < 2 => r = F(0)
            /\ (Len(v) >= 1 /\ v[1] = 0) => r = F(0)

\* a loss over a curve whose interior point lies above both ends
C13_Witness ==
    /\ pc = "total_returned"
    /\ Len(Values) = 3
    /\ Values[1] = 3 /\ Values[2] > 3 - 1 /\ Values[3] = 1
    /\ Get(returned) = Norm(0 - 2, 3)

(***************************************************************************)
(* Definitions shared by the properties of calculate_sharpe_ratio          *)
(***************************************************************************)
\* the period-over-period returns that are defined: 0 -> 0 is not
Observations(v) == {i \in 2..Len(v) : v[i - 1] # 0 \/ v[i] # 0}

\* three or more positive points, the same return at every step
EqualReturns(v) ==
    /\ Len(v) >= 3
    /\ PositiveCurve(v)
    /\ \A i \in 3..Len(v) : v[i] * v[i - 2] = v[i - 1] * v[i - 1]

SharpeCalled == pc \in {"sharpe_returned", "sharpe_raised"}

Rising(v) == \A i \in 2..Len(v) : v[i] > v[i - 1]

Falling(v) == \A i \in 2..Len(v) : v[i] < v[i - 1]

C15_Case ==
    /\ pc = "sharpe_returned"
    /\ risk_free_rate = F(0)
    /\ periods_per_year = PERIODS_PER_YEAR
    /\ Len(Values) >= 3
    /\ PositiveCurve(Values)

C16_Total ==
    /\ pc # "call_analyzer"
    /\ risk_free_rate = F(0)
    /\ periods_per_year = PERIODS_PER_YEAR
    => /\ error = None
       /\ IsSome(returned)
       /\ pc = "sharpe_returned" => IsFinite(Get(returned).sq)
       /\ pc \in {"drawdown_returned", "total_returned"} => IsFinite(Get(returned))

(***************************************************************************)
(* C17: on success run_backtest returns status "completed"; equity_curve   *)
(* is calculate_returns of the prices, the signals of                      *)
(* calculate_ma_crossover_signals and the initial capital, unrounded;      *)
(* sharpe, max_drawdown and total_return are the three analyzer functions  *)
(* of that curve, each rounded to 4 decimal places.                        *)
(***************************************************************************)
FAbs(x) == IF FLt(x, F(0)) THEN FNeg(x) ELSE x

\* v is a multiple of 10^-4 nearest to x; non-finite values are kept
Rounded4(v, x) ==
    IF ~IsFinite(x) THEN v = x
    ELSE /\ IsFinite(v)
         /\ 10000 % v[2] = 0
         /\ FLe(FMul(F(20000), FAbs(FSub(v, x))), F(1))

C17_Composition ==
    pc = "done" =>
        LET sig == calculate_ma_crossover_signals(prices, Fast, Slow)
            curve == calculate_returns(prices, Get(sig.signals), initial_capital)
            r == Get(result)
        IN  /\ KnownStrategy
            /\ sig.error = None
            /\ error = None
            /\ r.status = "completed"
            /\ r.equity_curve = curve
            /\ r.sharpe = RoundSurd4(calculate_sharpe_ratio(curve, F(0), 252))
            /\ r.max_drawdown = Round4(calculate_max_drawdown(curve))
            /\ r.total_return = Round4(calculate_total_return(curve))
            /\ Rounded4(r.max_drawdown, calculate_max_drawdown(curve))
            /\ Rounded4(r.total_return, calculate_total_return(curve))

\* a completed run over positive prices, its three statistics all different
\* from 0
C17_Witness ==
    /\ pc = "done"
    /\ PositivePrices(prices)
    /\ Get(result).status = "completed"
    /\ IsFinite(Get(result).sharpe) /\ Get(result).sharpe # F(0)
    /\ FLt(Get(result).max_drawdown, F(0))
    /\ IsFinite(Get(result).total_return) /\ Get(result).total_return # F(0)
    /\ Get(result).equity_curve # ToFloat(prices)

(***************************************************************************)
(* C18: run_backtest fills missing parameters with fast = 10 and           *)
(* slow = 30.  For every params mapping the outcome of the call, the       *)
(* statistics and curve of the result or the error, is the outcome of the  *)
(* call with the missing keys set to those values; with an empty mapping   *)
(* and at least 30 prices the call completes.                              *)
(***************************************************************************)
FilledParams ==
    [k \in ParamKeys |->
        IF k \in DOMAIN params THEN params[k] ELSE IF k = "fast" THEN 10 ELSE 30]

C18_Defaults ==
    pc \in {"done", "raised"} =>
        LET filled == BacktestOutcome(prices, strategy, FilledParams, initial_capital)
        IN  /\ error = filled.error
            /\ result = filled.result
            /\ (KnownStrategy /\ DOMAIN params = {} /\ Len(prices) >= 30) =>
                   pc = "done"

\* a completed run with no period given whose last step was taken long
C18_Witness ==
    /\ pc = "done"
    /\ DOMAIN params = {}
    /\ Len(prices) > 30
    /\ Get(signals)[30] = 1
    /\ Get(result).equity_curve[Len(prices)] # F(initial_capital)

(***************************************************************************)
(* C19: the engine is deterministic.  Any two run_backtest calls with the  *)
(* same prices, strategy name, params and initial capital return the same  *)
(* equity_curve, sharpe, max_drawdown and total_return, or raise the same  *)
(* error; only job_id, runtime_seconds and created_at may differ.          *)
(***************************************************************************)
\* the fields of an outcome that must not depend on the time of the call
Statistics(out) ==
    IF IsSome(out.result)
    THEN << Get(out.result).status, Get(out.result).equity_curve,
            Get(out.result).sharpe, Get(out.result).max_drawdown,
            Get(out.result).total_return >>
    ELSE << >>

JobStatistics(r) == << r.sharpe, r.max_drawdown, r.total_return, r.equity_curve >>

LastWithId(job_id) ==
    CHOOSE k \in 1..Len(submitted) :
        /\ submitted[k].job_id = job_id
        /\ \A m \in (k + 1)..Len(submitted) : submitted[m].job_id # job_id

SameSecond(a, b) ==
    a.created_at \div TICKS_PER_SECOND = b.created_at \div TICKS_PER_SECOND

StoredIds == {submitted[k].job_id : k \in 1..Len(submitted)}

\* the last request was handled by fn
Handled(tr, fn) == tr # << >> /\ tr[1].fn = fn

\* fn was invoked while the last request was handled
Invoked(fn) == \E k \in 1..Len(called) : called[k].fn = fn

\* what the call of fn raised, "none" when it returned or was not made
Raised(fn) ==
    IF \E k \in 1..Len(called) : called[k].fn = fn /\ called[k].raised # "none"
    THEN (CHOOSE c \in {called[k] : k \in 1..Len(called)} : c.fn = fn).raised
    ELSE "none"

C21_GetJob ==
    /\ [](\A id \in JobIds :
            LET answer == get_job(job_results, id)
            IN  /\ answer.status_code \in {200, 404}
                /\ answer.status_code = 404 <=> id \notin StoredIds
                /\ answer.status_code = 404 => answer.body = [error |-> "Job not found"]
                /\ answer.status_code = 200 =>
                       /\ answer = BacktestResponse(job_results[id])
                       /\ answer.body.job_id = id
                       /\ JobStatistics(answer.body)
                              = JobStatistics(submitted[LastWithId(id)]))
    /\ [][Handled(called', "get_job") =>
              /\ job_results' = job_results
              /\ \E id \in JobIds : response' = get_job(job_results, id)]_vars

\* a request for an id nothing was stored under, answered 404 by a store
\* that holds a job
C21_Witness ==
    /\ Handled(called, "get_job")
    /\ response.status_code = 404
    /\ job_results # << >>
    /\ \E id \in JobIds : get_job(job_results, id).status_code = 200

(***************************************************************************)
(* C22: submit_job maps failures to status codes by stage.  A              *)
(* DataFetchError or ValueError raised by fetch_ohlcv gives 400 and        *)
(* run_backtest is not invoked; a ValueError raised by run_backtest gives  *)
(* 400 with "Backtest execution failed"; any other exception raised by     *)
(* run_backtest gives 500; every such error body carries the message under *)
(* the key "error".                                                        *)
(***************************************************************************)
C22_StatusByStage ==
    Handled(called, "BacktestRequest") =>
        /\ Raised("fetch_ohlcv") # "none" =>
               /\ Raised("fetch_ohlcv") \in {"DataFetchError", "ValueError"}
               /\ response.status_code = 400
               /\ response.body =
                      [error |-> IF Raised("fetch_ohlcv") = "DataFetchError"
                                 THEN "Failed to fetch data" ELSE "Invalid parameters"]
               /\ ~Invoked("run_backtest")
        /\ Raised("run_backtest") = "ValueError" =>
               /\ response.status_code = 400
               /\ response.body = [error |-> "Backtest execution failed"]
        /\ Raised("run_backtest") \notin {"none", "ValueError"} =>
               /\ response.status_code = 500
               /\ response.body = [error |-> "Internal error during backtest"]
        /\ response.status_code \in {400, 500} =>
               /\ DOMAIN response.body = {"error"}
               /\ Raised("fetch_ohlcv") # "none" \/ Raised("run_backtest") # "none"
        /\ Invoked("run_backtest") =>
               Invoked("fetch_ohlcv") /\ Raised("fetch_ohlcv") = "none"

\* a string period that passed the request model and made the engine raise
\* TypeError, answered with 500
C22_Witness ==
    /\ Handled(called, "BacktestRequest")
    /\ Raised("run_backtest") = "TypeError"
    /\ response.status_code = 500

(***************************************************************************)
(* C23 as stated: every submit request whose params supply a fast or slow  *)
(* value that is not a positive integer, or supply fast >= slow, is        *)
(* answered with 422, and neither fetch_ohlcv nor run_backtest is invoked  *)
(* for it.                                                                 *)
(***************************************************************************)
NotPositiveInteger(x) == x.type # "int" \/ x.val <= 0

InvalidParams(v) ==
    \/ \E k \in DOMAIN v : NotPositiveInteger(v[k])
    \/ /\ DOMAIN v = ParamKeys
       /\ v["fast"].type = "int" /\ v["slow"].type = "int"
       /\ v["fast"].val >= v["slow"].val

C23_RejectedAtBoundary ==
    Handled(called, "BacktestRequest") /\ InvalidParams(request.params) =>
        /\ response.status_code = 422
        /\ ~Invoked("fetch_ohlcv")
        /\ ~Invoked("run_backtest")

(***************************************************************************)
(* C24: a job identifier is <prefix>-YYYYMMDD-HHMMSS of the UTC second of  *)
(* its creation.  For two identifiers with the same prefix, an earlier     *)
(* creation second gives the smaller identifier in string order, and the   *)
(* identifiers are equal exactly when they were generated within the same  *)
(* second; run_backtest's job_id is what generate_job_id() with the        *)
(* default prefix gives at that moment.                                    *)
(***************************************************************************)
\* string order on character codes
StrLess(a, b) ==
    \/ \E k \in 1..Len(a) :
           /\ k <= Len(b)
           /\ a[k] < b[k]
           /\ \A i \in 1..(k - 1) : a[i] = b[i]
    \/ Len(a) < Len(b) /\ \A i \in 1..Len(a) : a[i] = b[i]

\* eight digits, a hyphen, six digits
WellFormedStamp(ts) ==
    /\ Len(ts) = 15
    /\ ts[9] = 45
    /\ \A i \in (1..15) \ {9} : ts[i] \in 48..57

SecondOf(r) == r.created_at \div TICKS_PER_SECOND

Generated == {Get(runs[k].result) : k \in {i \in 1..Len(runs) : IsSome(runs[i].result)}}

\* the order of identifiers over every instant an identifier is made at
InstantsChecked == StartInstants \cup {s + 1 : s \in StartInstants}

OrderOnInstants ==
    \A s1, s2 \in InstantsChecked : \A prefix \in Prefixes :
        LET id1 == generate_job_id(prefix, s1 * TICKS_PER_SECOND)
            id2 == generate_job_id(prefix, s2 * TICKS_PER_SECOND + 1)
        IN  /\ s1 < s2 => StrLess(id1.timestamp, id2.timestamp)
            /\ id1 = id2 <=> s1 = s2

C25_DistinctKinds ==
    pc = "raised" /\ ~KnownStrategy =>
        \A p \in ParamsSet :
            LET out == BacktestOutcome(prices, "ma_crossover", p, initial_capital)
            IN  IsSome(out.error) => Get(out.error).kind # Get(error).kind

(***************************************************************************)
(* C26: for every price series of positive prices, every signal series in  *)
(* {0,1} and every initial_capital >= 0, every value of the equity curve   *)
(* calculate_returns gives is non-negative, and the curve is               *)
(* non-decreasing whenever every applied strategy return                   *)
(* signal[i-1] * r[i] is >= 0.                                             *)
(***************************************************************************)
\* signal[i-1] * (price[i] / price[i-1] - 1)
AppliedReturn(p, sig, i) ==
    FMul(F(sig[i - 1]), FSub(FDiv(F(p[i]), F(p[i - 1])), F(1)))

NoAppliedLoss(p, sig) ==
    \A i \in 2..Len(p) : FLe(F(0), AppliedReturn(p, sig, i))

C26_NonNegative ==
    pc = "returned" /\ PositivePrices(prices)
        /\ initial_capital >= 0 =>
        LET eq == Get(equity_curve)
        IN  /\ \A i \in 1..Len(eq) : FLe(F(0), eq[i])
            /\ NoAppliedLoss(prices, Get(signals)) =>
                   \A i \in 2..Len(eq) : FLe(eq[i - 1], eq[i])

\* a curve that rises while long and stays level across a fall it sat out
C26_Witness ==
    /\ pc = "returned"
    /\ PositivePrices(prices)
    /\ initial_capital > 0
    /\ NoAppliedLoss(prices, Get(signals))
    /\ \E i \in 2..Len(prices) : prices[i] < prices[i - 1]
    /\ \E i \in 2..Len(prices) : FLt(Get(equity_curve)[i - 1], Get(equity_curve)[i])

(***************************************************************************)
(* C27 as stated: for every valid input the equity curve of the full       *)
(* pipeline equals initial_capital at every index up to slow - 1 (counted  *)
(* from 0); consequently, when len(prices) = slow the whole curve is       *)
(* constant and run_backtest reports total_return 0, max_drawdown 0 and    *)
(* sharpe 0, whatever the prices are.                                      *)
(***************************************************************************)
WarmUpIntact ==
    \A i \in 1..Slow : Get(result).equity_curve[i] = F(initial_capital)

C27_WarmUp ==
    pc = "done" /\ KnownStrategy /\ ValidInput =>
        /\ WarmUpIntact
        /\ Len(prices) = Slow =>
               /\ Get(result).total_return = F(0)
               /\ Get(result).max_drawdown = F(0)
               /\ Get(result).sharpe = F(0)

(***************************************************************************)
(* C28: with every signal 1, calculate_returns over a price series (prices *)
(* > 0) gives equity[i] = initial_capital * price[i] / price[0] at every   *)
(* index, whatever the prices in between are; and for any signals and      *)
(* prices the signal at the last index affects no value of the curve.      *)
(***************************************************************************)
EverySignalLong(sig) == \A i \in 1..Len(sig) : sig[i] = 1

C28_BuyAndHold ==
    pc = "returned" =>
        LET eq == Get(equity_curve)
            sig == Get(signals)
            n == Len(prices)
        IN  /\ EverySignalLong(sig) /\ PositivePrices(prices) =>
                   \A i \in 1..n :
                       eq[i] = FDiv(FMul(F(initial_capital), F(prices[i])), F(prices[1]))
            /\ n >= 1 =>
                   calculate_returns(prices, [sig EXCEPT ![n] = 1 - sig[n]],
                                     initial_capital) = eq

\* an all-long run over prices that fall and come back above where they began
C28_Witness ==
    /\ pc = "returned"
    /\ EverySignalLong(Get(signals))
    /\ PositivePrices(prices)
    /\ initial_capital = DEFAULT_CAPITAL
    /\ Len(prices) >= 4
    /\ \E i \in 2..Len(prices) : prices[i] < prices[i - 1]
    /\ prices[Len(prices)] > prices[1]
    /\ Get(equity_curve)[Len(prices)]
           = FDiv(FMul(F(initial_capital), F(prices[Len(prices)])), F(prices[1]))

(***************************************************************************)
(* C29: the statistics do not depend on the scale of capital.  For the     *)
(* same price series and params and any two initial capitals c1, c2 > 0    *)
(* the equity curves satisfy curve2[i] * c1 = curve1[i] * c2 at every      *)
(* index, and run_backtest reports the same total_return, max_drawdown and *)
(* sharpe.                                                                 *)
(***************************************************************************)
OtherCapitals == {c \in CapitalVals : c > 0} \cup {3}

C29_ScaleFree ==
    pc = "done" /\ initial_capital > 0 =>
        \A c2 \in OtherCapitals :
            LET other == BacktestOutcome(prices, strategy, params, c2)
                r1 == Get(result)
                r2 == Get(other.result)
            IN  /\ IsSome(other.result)
                /\ Len(r2.equity_curve) = Len(r1.equity_curve)
                /\ \A i \in 1..Len(r1.equity_curve) :
                       FMul(r2.equity_curve[i], F(initial_capital))
                           = FMul(r1.equity_curve[i], F(c2))
                /\ r2.total_return = r1.total_return
                /\ r2.max_drawdown = r1.max_drawdown
                /\ r2.sharpe = r1.sharpe

\* a run on capital 1 with a gain, a drawdown and a Sharpe ratio other than
\* 0, against the same run on the default capital
C29_Witness ==
    /\ pc = "done"
    /\ initial_capital = 1
    /\ PositivePrices(prices)
    /\ Get(result).total_return # F(0)
    /\ FLt(Get(result).max_drawdown, F(0))
    /\ Get(result).sharpe # F(0)
    /\ Get(BacktestOutcome(prices, strategy, params, DEFAULT_CAPITAL).result).equity_curve
           # Get(result).equity_curve

(***************************************************************************)
(* C30: the job store changes only on success.  A submit_job call that     *)
(* ends in an error response (422, 400 or 500) leaves job_results          *)
(* unchanged; a successful call adds or replaces exactly the one entry     *)
(* keyed by the returned job_id; and in every reachable state each entry   *)
(* of job_results is stored under the key equal to its own job_id field.   *)
(***************************************************************************)
C30_StoreOnSuccess ==
    /\ [](\A id \in DOMAIN job_results : job_results[id].job_id = id)
    /\ [][Handled(called', "BacktestRequest") =>
              IF response'.status_code # 200
              THEN /\ response'.status_code \in {422, 400, 500}
                   /\ job_results' = job_results
              ELSE LET id == response'.body.job_id
                   IN  /\ DOMAIN job_results' = DOMAIN job_results \cup {id}
                       /\ \A k \in DOMAIN job_results \ {id} :
                              job_results'[k] = job_results[k]
                       /\ BacktestResponse(job_results'[id]) = response']_vars

\* a store holding a job, after a request the engine failed on with 500
C30_Witness ==
    /\ Handled(called, "BacktestRequest")
    /\ response.status_code = 500
    /\ job_results # << >>

====
